---- MODULE Spec2Model ----
(***************************************************************************)
(* HablaDB (dgomex/habladb): connection resolver, metadata harvester,      *)
(* metadata context builder, SQL extractor, query executor and the chat    *)
(* turn that chains them.                                                  *)
(*                                                                         *)
(* Python strings are TLA+ strings (sequences of characters).  A TLA+      *)
(* string literal cannot contain the backtick, so the backtick character   *)
(* is written "^" throughout: "^^^" is the triple-backtick fence.          *)
(***************************************************************************)
EXTENDS Integers, Sequences, FiniteSets, TLC

VARIABLES
    raw_conn,      \* normalize_connection_string: the argument
    norm1,         \* normalize(raw_conn)
    norm2,         \* normalize(normalize(raw_conn))
    npc,           \* resolver position: "arg" -> "once" -> "twice"
    content,       \* extract_sql_from_response: the argument
    extracted,     \* its return value (None or a string)
    xpc,           \* extractor position: "arg" -> "done"
    files,         \* databases/{conn_name}_{kind}.json, one content per kind
    cpc,           \* load_metadata_context: "arg", "loop", "done"
    ci,            \* load_metadata_context: index of the next kind of the for loop
    parts,         \* load_metadata_context: the local list parts
    ctx,           \* load_metadata_context: how the call ended
    hpc,           \* harvest_metadata: "idle", "engine", "write", "dump", "done", "failed"
    hurl,          \* harvest_metadata: the normalized url
    hlists,        \* harvest_metadata: schemas_list, tables_list, columns_list
    hk,            \* harvest_metadata: index of the file of the write loop
    herr,          \* harvest_metadata: the exception that left the call, "" if none
    hnum,          \* number of harvest calls made so far
    stamp,         \* per kind, the harvest call whose json.dump completed the file (0: none)
    before,        \* the files as they were when the current harvest call began
    bop,           \* boundary call: "execute" (_execute_sql) or "validate" (validate_connection)
    burl,          \* boundary call: the connection_string argument
    bsql,          \* boundary call: the sql argument of _execute_sql
    benv,          \* boundary call: what the drivers and the database did during the call
    bres,          \* boundary call: how the call ended
    bpc,           \* boundary call: "arg" -> "done"
    tpc,           \* main, chat turn: position in the turn
    tin,           \* chat turn: active connection, provider, model and url of the sidebar
    tctx,          \* chat turn: how load_metadata_context ended
    tcontent,      \* text_to_sql: content of the model response
    tllm,          \* chat turn: (sql, llm_error) returned by text_to_sql
    texec,         \* chat turn: how _execute_sql ended
    tenv,          \* chat turn: what the database did during _execute_sql
    tlog,          \* the steps the turn has run, in order
    treports,      \* what the turn has shown to the user, in order
    rurl,          \* concurrent harvests: the normalized url of the connection name
    rpc,           \* concurrent harvests: per session, the position of its harvest_metadata call
    rk,            \* concurrent harvests: per session, index of the file of its write loop
    rlists,        \* concurrent harvests: per session, its schemas_list, tables_list, columns_list
    rbase          \* the files as they were before the concurrent harvests began

resolverVars == <<raw_conn, norm1, norm2, npc>>
extractorVars == <<content, extracted, xpc>>
contextVars == <<cpc, ci, parts, ctx>>
harvestVars == <<hpc, hurl, hlists, hk, herr, hnum, stamp, before>>
boundaryVars == <<bop, burl, bsql, benv, bres, bpc>>
vars == <<raw_conn, norm1, norm2, npc, content, extracted, xpc, files, cpc, ci, parts, ctx,
          hpc, hurl, hlists, hk, herr, hnum, stamp, before,
          bop, burl, bsql, benv, bres, bpc,
          tpc, tin, tctx, tcontent, tllm, texec, tenv, tlog, treports,
          rurl, rpc, rk, rlists, rbase>>
turnVars == <<tpc, tin, tctx, tcontent, tllm, texec, tenv, tlog, treports>>
raceVars == <<rurl, rpc, rk, rlists, rbase>>

(***************************************************************************)
(* Bounds                                                                  *)
(***************************************************************************)
MaxUrlPieces == 3
MaxTextPieces == 3
MaxHarvests == 2        \* harvest calls in one behaviour
ExtraRows == 1          \* persisted rows beyond the cap of the context builder

(***************************************************************************)
(* Python values                                                           *)
(***************************************************************************)
None == [isNone |-> TRUE, s |-> ""]
Some(str) == [isNone |-> FALSE, s |-> str]

(***************************************************************************)
(* str helpers                                                             *)
(***************************************************************************)
CharAt(s, i) == SubSeq(s, i, i)

IsSpace(c) == c \in {" ", "\n", "\t", "\r"}

RECURSIVE LStrip(_)
LStrip(s) ==
    IF Len(s) > 0 /\ IsSpace(CharAt(s, 1)) THEN LStrip(SubSeq(s, 2, Len(s))) ELSE s

RECURSIVE RStrip(_)
RStrip(s) ==
    IF Len(s) > 0 /\ IsSpace(CharAt(s, Len(s))) THEN RStrip(SubSeq(s, 1, Len(s) - 1)) ELSE s

\* str.strip()
Strip(s) == RStrip(LStrip(s))

\* str.startswith(p)
StartsWith(s, p) == Len(s) >= Len(p) /\ SubSeq(s, 1, Len(p)) = p

\* p occurs in s at index i (1-based)
OccursAt(s, p, i) == i >= 1 /\ i + Len(p) - 1 <= Len(s) /\ SubSeq(s, i, i + Len(p) - 1) = p

\* index of the first occurrence of p in s at or after from, 0 when there is none
FindFrom(s, p, from) ==
    LET hits == {i \in from..Len(s) : OccursAt(s, p, i)}
    IN IF hits = {} THEN 0 ELSE CHOOSE i \in hits : \A j \in hits : i <= j

\* "p in s"
Contains(s, p) == FindFrom(s, p, 1) # 0

\* s.split(sep)[0]
SplitHead(s, sep) ==
    LET i == FindFrom(s, sep, 1) IN IF i = 0 THEN s ELSE SubSeq(s, 1, i - 1)

\* s.split(sep)
RECURSIVE Split(_, _)
Split(s, sep) ==
    LET i == FindFrom(s, sep, 1)
    IN IF i = 0 THEN <<s>>
       ELSE <<SubSeq(s, 1, i - 1)>> \o Split(SubSeq(s, i + Len(sep), Len(s)), sep)

LowerChar(c) ==
    CASE c = "A" -> "a" [] c = "B" -> "b" [] c = "C" -> "c" [] c = "D" -> "d"
      [] c = "E" -> "e" [] c = "F" -> "f" [] c = "G" -> "g" [] c = "H" -> "h"
      [] c = "I" -> "i" [] c = "J" -> "j" [] c = "K" -> "k" [] c = "L" -> "l"
      [] c = "M" -> "m" [] c = "N" -> "n" [] c = "O" -> "o" [] c = "P" -> "p"
      [] c = "Q" -> "q" [] c = "R" -> "r" [] c = "S" -> "s" [] c = "T" -> "t"
      [] c = "U" -> "u" [] c = "V" -> "v" [] c = "W" -> "w" [] c = "X" -> "x"
      [] c = "Y" -> "y" [] c = "Z" -> "z" [] OTHER -> c

\* str.lower()
RECURSIVE Lower(_)
Lower(s) ==
    IF Len(s) = 0 THEN s ELSE LowerChar(CharAt(s, 1)) \o Lower(SubSeq(s, 2, Len(s)))

\* the concatenation of a sequence of strings
RECURSIVE Concat(_)
Concat(ps) == IF Len(ps) = 0 THEN "" ELSE ps[1] \o Concat(Tail(ps))

\* every concatenation of at most n pieces
PieceStrings(pieces, n) == {Concat(ps) : ps \in UNION {[1..k -> pieces] : k \in 0..n}}

(***************************************************************************)
(* Connection resolver (metadata_utils.py)                                 *)
(***************************************************************************)
PG_DRIVER_PREFIX == "postgresql+psycopg2://"

\* a faulty normalize: the prefixes are tested on the unstripped argument and the white
\* space is stripped only on return
normalize_strip_late(connection_string) ==
    LET s == connection_string
    IN IF StartsWith(s, "duckdb://") THEN Strip(s)
       ELSE IF StartsWith(s, "postgres://")
            THEN Strip(PG_DRIVER_PREFIX \o SubSeq(s, Len("postgres://") + 1, Len(s)))
       ELSE IF StartsWith(s, "postgresql://") /\ ~Contains(SplitHead(s, "://"), "+")
            THEN Strip(PG_DRIVER_PREFIX \o SubSeq(s, Len("postgresql://") + 1, Len(s)))
       ELSE Strip(s)

normalize_connection_string(connection_string) ==
    LET s == Strip(connection_string)
    IN IF StartsWith(s, "duckdb://") THEN s
       ELSE IF StartsWith(s, "postgres://")
            THEN PG_DRIVER_PREFIX \o SubSeq(s, Len("postgres://") + 1, Len(s))
       ELSE IF StartsWith(s, "postgresql://") /\ ~Contains(SplitHead(s, "://"), "+")
            THEN PG_DRIVER_PREFIX \o SubSeq(s, Len("postgresql://") + 1, Len(s))
       ELSE s

is_duckdb_url(url) == StartsWith(Lower(Strip(url)), "duckdb://")

UrlPieces ==
    {" ", "postgres://", "postgresql://", "postgresql+psycopg2://",
     "postgresql+asyncpg://", "duckdb://", "DuckDB://", "mysql://", "u@h/db", "+"}

ConnStrings == PieceStrings(UrlPieces, MaxUrlPieces)

ResolverInit ==
    /\ raw_conn \in ConnStrings
    /\ norm1 = None
    /\ norm2 = None
    /\ npc = "arg"

Normalize ==
    /\ npc = "arg"
    /\ norm1' = Some(normalize_connection_string(raw_conn))
    /\ npc' = "once"
    /\ UNCHANGED <<raw_conn, norm2>>

NormalizeAgain ==
    /\ npc = "once"
    /\ norm2' = Some(normalize_connection_string(norm1.s))
    /\ npc' = "twice"
    /\ UNCHANGED <<raw_conn, norm1>>

(***************************************************************************)
(* SQL extractor (llm_utils.py)                                            *)
(***************************************************************************)
FENCE == "^^^"

\* re: the longest run of white space \s* can consume in text from index i
RECURSIVE SpaceRun(_, _)
SpaceRun(text, i) ==
    IF i <= Len(text) /\ IsSpace(CharAt(text, i)) THEN 1 + SpaceRun(text, i + 1) ELSE 0

\* re: (?:sql)? consumes 3 characters when they spell sql in any case, or none
TagOptions(text, i) ==
    IF i + 2 <= Len(text) /\ Lower(SubSeq(text, i, i + 2)) = "sql" THEN {3, 0} ELSE {0}

\* The ways  ^^^(?:sql)?\s*([\s\S]*?)^^^  (IGNORECASE) matches text from
\* index i: t characters of tag, w of white space, m of group 1.
BlockMatches(text, i) ==
    IF ~OccursAt(text, FENCE, i) THEN {}
    ELSE UNION {
           UNION {
             {<<t, w, m>> : m \in {k \in 0..(Len(text) - (i + 3 + t + w) - 2) :
                                      OccursAt(text, FENCE, i + 3 + t + w + k)}}
             : w \in 0..SpaceRun(text, i + 3 + t)}
           : t \in TagOptions(text, i + 3)}

\* a faulty preference: the group is matched greedily ([\s\S]* instead of [\s\S]*?)
PreferredGreedy(a, b) ==
    \/ a[1] > b[1]
    \/ a[1] = b[1] /\ a[2] > b[2]
    \/ a[1] = b[1] /\ a[2] = b[2] /\ a[3] >= b[3]

\* The match the backtracking engine reports: it prefers the tag taken
\* (greedy ?), then more white space (greedy star), then a shorter group
\* (lazy star).
Preferred(a, b) ==
    \/ a[1] > b[1]
    \/ a[1] = b[1] /\ a[2] > b[2]
    \/ a[1] = b[1] /\ a[2] = b[2] /\ a[3] <= b[3]

\* re.search: group 1 of the leftmost match, None when nothing matches
BlockSearch(text) ==
    LET starts == {i \in 1..Len(text) : BlockMatches(text, i) # {}}
    IN IF starts = {} THEN None
       ELSE LET i == CHOOSE a \in starts : \A b \in starts : a <= b
                ms == BlockMatches(text, i)
                c == CHOOSE a \in ms : \A b \in ms : Preferred(a, b)
                g == i + 3 + c[1] + c[2]
            IN Some(SubSeq(text, g, g + c[3] - 1))

SQL_KEYWORDS == {"select", "with", "insert", "update", "delete"}

\* re.match(r"^\s*(SELECT|WITH|INSERT|UPDATE|DELETE)\s", line, re.IGNORECASE)
KeywordLine(line) ==
    LET l == LStrip(line)
    IN \E kw \in SQL_KEYWORDS :
          /\ Len(l) > Len(kw)
          /\ Lower(SubSeq(l, 1, Len(kw))) = kw
          /\ IsSpace(CharAt(l, Len(kw) + 1))

\* the for loop over text.split("\n"): TRUE when it returns from inside
RECURSIVE ScanLines(_)
ScanLines(lines) ==
    IF Len(lines) = 0 THEN FALSE
    ELSE LET line == Strip(lines[1])
         IN IF StartsWith(line, "--") THEN ScanLines(Tail(lines))
            ELSE IF KeywordLine(line) THEN TRUE
            ELSE ScanLines(Tail(lines))

\* the first line the for loop would return on
RECURSIVE FirstKeywordLine(_)
FirstKeywordLine(lines) ==
    IF Len(lines) = 0 THEN None
    ELSE LET line == Strip(lines[1])
         IN IF StartsWith(line, "--") THEN FirstKeywordLine(Tail(lines))
            ELSE IF KeywordLine(line) THEN Some(line)
            ELSE FirstKeywordLine(Tail(lines))

\* a faulty extract: the loop returns the matching line instead of the whole text
extract_matching_line(c) ==
    IF Len(c) = 0 \/ Len(Strip(c)) = 0 THEN None
    ELSE LET text == Strip(c)
             block == BlockSearch(text)
         IN IF ~block.isNone
            THEN (IF Len(Strip(block.s)) = 0 THEN None ELSE Some(Strip(block.s)))
            ELSE IF ScanLines(Split(text, "\n")) THEN FirstKeywordLine(Split(text, "\n"))
            ELSE Some(text)

extract_sql_from_response(c) ==
    IF Len(c) = 0 \/ Len(Strip(c)) = 0 THEN None
    ELSE LET text == Strip(c)
             block == BlockSearch(text)
         IN IF ~block.isNone
            THEN (IF Len(Strip(block.s)) = 0 THEN None ELSE Some(Strip(block.s)))
            ELSE IF ScanLines(Split(text, "\n")) THEN Some(text)
            ELSE Some(text)

TextPieces ==
    {" ", "\n", "^^^", "^", "SQL", "SELECT 1", "-- note\n", "Here:", "^^^sql\nWITH a \n^^^"}

Responses == PieceStrings(TextPieces, MaxTextPieces)

ExtractorInit ==
    /\ content \in Responses
    /\ extracted = None
    /\ xpc = "arg"

Extract ==
    /\ xpc = "arg"
    /\ extracted' = extract_sql_from_response(content)
    /\ xpc' = "done"
    /\ UNCHANGED content

(***************************************************************************)
(* Persisted metadata files (metadata_utils.py)                            *)
(*                                                                         *)
(* A file is absent, cannot be opened (OSError), holds bytes that are not  *)
(* UTF-8, holds text that is not JSON (an empty or truncated file too), or *)
(* holds a JSON value.  A JSON value is a list of elements, or some other  *)
(* value of which only the truth value matters to the code.  An element    *)
(* is a dict of string or null cells, or some non-dict value.              *)
(***************************************************************************)
Kinds == <<"schemas", "tables", "columns">>
KindSet == {Kinds[i] : i \in 1..Len(Kinds)}

Label(kind) ==
    CASE kind = "schemas" -> "Schemas" [] kind = "tables" -> "Tables" [] kind = "columns" -> "Columns"

Fields(kind) ==
    CASE kind = "schemas" -> <<"schema_name">>
      [] kind = "tables" -> <<"schema_name", "table_name">>
      [] kind = "columns" -> <<"schema_name", "table_name", "column_name", "data_type", "description">>

Dict(keys, vals) == [isdict |-> TRUE, keys |-> keys, vals |-> vals]
NonDict == [isdict |-> FALSE, keys |-> <<>>, vals |-> <<>>]

JList(rows) == [jt |-> "list", truthy |-> Len(rows) > 0, rows |-> rows]
JOther(truthy) == [jt |-> "other", truthy |-> truthy, rows |-> <<>>]

Absent == [st |-> "absent", v |-> JOther(FALSE)]
Unopenable == [st |-> "oserror", v |-> JOther(FALSE)]
NotUtf8 == [st |-> "notutf8", v |-> JOther(FALSE)]
BadJson == [st |-> "badjson", v |-> JOther(FALSE)]
JsonFile(v) == [st |-> "json", v |-> v]

\* dict.get(k, default)
DictGet(row, k, default) ==
    IF \E i \in 1..Len(row.keys) : row.keys[i] = k
    THEN row.vals[CHOOSE i \in 1..Len(row.keys) : row.keys[i] = k]
    ELSE default

_safe_str(value) == IF value.isNone THEN "" ELSE value.s

\* sep.join(strs)
RECURSIVE Join(_, _)
Join(strs, sep) ==
    IF Len(strs) = 0 THEN ""
    ELSE IF Len(strs) = 1 THEN strs[1]
    ELSE LET h == Len(strs) \div 2
         IN Join(SubSeq(strs, 1, h), sep) \o sep \o Join(SubSeq(strs, h + 1, Len(strs)), sep)

\* s * n
RECURSIVE Repeat(_, _)
Repeat(s, n) == IF n <= 0 THEN "" ELSE s \o Repeat(s, n - 1)

ROW_CAP == 500
RULE_WIDTH == 50
NO_METADATA == "No metadata found for this connection."

\* a faulty slice: it keeps the whole list
WholeList(data, n) == data

\* data[:n]
Head_(data, n) == SubSeq(data, 1, IF Len(data) < n THEN Len(data) ELSE n)

\* " | ".join(_safe_str(row.get(k, "")) for k in keys)
RowLine(row, keys) ==
    Join([i \in 1..Len(keys) |-> _safe_str(DictGet(row, keys[i], Some("")))], " | ")

\* One iteration of the for loop of load_metadata_context over a file:
\* what it appends to parts, or the exception that leaves the function.
KindParts(file, label) ==
    IF file.st = "absent" THEN [exc |-> "", add |-> <<>>]
    ELSE IF file.st \in {"badjson", "oserror"} THEN [exc |-> "", add |-> <<>>]
    ELSE IF file.st = "notutf8" THEN [exc |-> "UnicodeDecodeError", add |-> <<>>]
    ELSE LET data == file.v
         IN IF ~data.truthy THEN [exc |-> "", add |-> <<>>]
            ELSE IF data.jt = "list" /\ Len(data.rows) > 0 /\ data.rows[1].isdict
            THEN LET keys == data.rows[1].keys
                     rows == Head_(data.rows, ROW_CAP)
                 IN IF \E i \in 1..Len(rows) : ~rows[i].isdict
                    THEN [exc |-> "AttributeError", add |-> <<>>]
                    ELSE [exc |-> "",
                          add |-> <<"## " \o label \o "\n", Join(keys, " | "),
                                    Repeat("-", RULE_WIDTH)>>
                                  \o [i \in 1..Len(rows) |-> RowLine(rows[i], keys)]
                                  \o <<"">>]
            ELSE [exc |-> "", add |-> <<"## " \o label \o "\n", "">>]

NoCall == [status |-> "none", exc |-> "", text |-> ""]
Returned(text) == [status |-> "returned", exc |-> "", text |-> text]
Raised(exc) == [status |-> "raised", exc |-> exc, text |-> ""]

\* the i-th persisted row of a harvested kind
Row(kind, i) ==
    Dict(Fields(kind),
         [j \in 1..Len(Fields(kind)) |->
            IF Fields(kind)[j] = "description" THEN None
            ELSE Some(SubSeq(Fields(kind)[j], 1, 1) \o ToString(i))])

RowCounts == {1} \cup (ROW_CAP..(ROW_CAP + ExtraRows))

FileContents(kind) ==
    {Absent, Unopenable, NotUtf8, BadJson, JsonFile(JList(<<>>)),
     JsonFile(JOther(FALSE)), JsonFile(JOther(TRUE)),
     JsonFile(JList(<<NonDict, Row(kind, 2)>>)),
     JsonFile(JList(<<Row(kind, 1), NonDict>>)),
     JsonFile(JList(<<Row(kind, 1), Dict(<<"table_name">>, <<Some("x")>>)>>)),
     JsonFile(JList([i \in 1..(ROW_CAP + 1) |-> IF i <= ROW_CAP THEN Row(kind, i) ELSE NonDict]))}
    \cup {JsonFile(JList([i \in 1..n |-> Row(kind, i)])) : n \in RowCounts}

ContextInit ==
    /\ \E s \in FileContents("schemas"), t \in FileContents("tables"),
          c \in FileContents("columns") :
            files = [k \in KindSet |-> CASE k = "schemas" -> s [] k = "tables" -> t
                                          [] k = "columns" -> c]
    /\ cpc = "arg"
    /\ ci = 1
    /\ parts = <<>>
    /\ ctx = NoCall

\* load_metadata_context(conn_name): entry
ContextCall ==
    /\ cpc = "arg"
    /\ cpc' = "loop"
    /\ ci' = 1
    /\ parts' = <<>>
    /\ ctx' = NoCall
    /\ UNCHANGED files

\* one iteration of the for loop
ContextKind ==
    /\ cpc = "loop"
    /\ ci <= Len(Kinds)
    /\ LET r == KindParts(files[Kinds[ci]], Label(Kinds[ci]))
       IN IF r.exc # ""
          THEN /\ ctx' = Raised(r.exc)
               /\ cpc' = "done"
               /\ UNCHANGED <<ci, parts>>
          ELSE /\ parts' = parts \o r.add
               /\ ci' = ci + 1
               /\ UNCHANGED <<cpc, ctx>>
    /\ UNCHANGED files

\* the return statement
ContextReturn ==
    /\ cpc = "loop"
    /\ ci > Len(Kinds)
    /\ ctx' = Returned(IF Len(parts) > 0 THEN Join(parts, "\n") ELSE NO_METADATA)
    /\ cpc' = "done"
    /\ UNCHANGED <<files, ci, parts>>

(***************************************************************************)
(* Metadata harvester (metadata_utils.py)                                  *)
(*                                                                         *)
(* The live database is external: a catalog is what it answers to the      *)
(* enumeration queries, in the order it answers.                           *)
(***************************************************************************)
Tbl(schema, name, type) == [schema |-> schema, name |-> name, type |-> type]
Col(schema, table, name, dtype, comment) ==
    [schema |-> schema, table |-> table, name |-> name, dtype |-> dtype, comment |-> comment]

CatalogA ==
    [schemata |-> <<"main">>,
     tables |-> <<Tbl("main", "users", "BASE TABLE")>>,
     columns |-> <<Col("main", "users", "id", "INTEGER", ""),
                   Col("main", "users", "name", "VARCHAR", "full name")>>]

CatalogB ==
    [schemata |-> <<"information_schema", "main", "sales">>,
     tables |-> <<Tbl("information_schema", "tables", "VIEW"),
                  Tbl("main", "tmp", "LOCAL TEMPORARY"),
                  Tbl("sales", "orders", "BASE TABLE"),
                  Tbl("sales", "v_orders", "VIEW")>>,
     columns |-> <<Col("information_schema", "tables", "table_name", "VARCHAR", ""),
                   Col("main", "tmp", "x", "INTEGER", ""),
                   Col("sales", "orders", "id", "BIGINT", "order id"),
                   Col("sales", "v_orders", "id", "BIGINT", "")>>]

Catalogs == {CatalogA, CatalogB}

\* SQL: s LIKE pat, for a pattern of literal characters and _ closed by one %
RECURSIVE Like(_, _)
Like(s, pat) ==
    IF pat = "%" THEN TRUE
    ELSE IF Len(pat) = 0 THEN Len(s) = 0
    ELSE /\ Len(s) > 0
         /\ CharAt(pat, 1) = "_" \/ CharAt(pat, 1) = CharAt(s, 1)
         /\ Like(SubSeq(s, 2, Len(s)), SubSeq(pat, 2, Len(pat)))

SchemaRow(schema) == Dict(Fields("schemas"), <<Some(schema)>>)
TableRow(schema, table) == Dict(Fields("tables"), <<Some(schema), Some(table)>>)
ColumnRow(schema, table, column, dtype, description) ==
    Dict(Fields("columns"),
         <<Some(schema), Some(table), Some(column), Some(dtype), Some(description)>>)

\* the concatenation of a sequence of sequences
RECURSIVE Flatten(_)
Flatten(seqs) == IF Len(seqs) = 0 THEN <<>> ELSE seqs[1] \o Flatten(Tail(seqs))

SchemaRows(names) == [i \in 1..Len(names) |-> SchemaRow(names[i])]
TableRows(tabs) == [i \in 1..Len(tabs) |-> TableRow(tabs[i].schema, tabs[i].name)]

\* _harvest_metadata_duckdb: the three information_schema queries
DuckdbLists(cat) ==
    LET tabs == SelectSeq(cat.tables,
                    LAMBDA t : /\ ~Like(t.schema, "information_schema%")
                               /\ t.type \in {"BASE TABLE", "VIEW"})
        cols == SelectSeq(cat.columns, LAMBDA c : ~Like(c.schema, "information_schema%"))
    IN [schemas |-> SchemaRows(cat.schemata),
        tables |-> TableRows(tabs),
        columns |-> [i \in 1..Len(cols) |->
                       ColumnRow(cols[i].schema, cols[i].table, cols[i].name, cols[i].dtype, "")]]

\* Inspector.get_table_names(schema=schema): the tables of the schema, no views
InspectorTables(cat, schema) ==
    SelectSeq(cat.tables, LAMBDA t : t.schema = schema /\ t.type = "BASE TABLE")

\* Inspector.get_columns(table, schema=schema)
InspectorColumns(cat, schema, table) ==
    SelectSeq(cat.columns, LAMBDA c : c.schema = schema /\ c.table = table)

\* harvest_metadata: the nested reflection loops
ReflectedLists(cat) ==
    LET tabs == Flatten([i \in 1..Len(cat.schemata) |-> InspectorTables(cat, cat.schemata[i])])
        cols == Flatten([i \in 1..Len(tabs) |-> InspectorColumns(cat, tabs[i].schema, tabs[i].name)])
    IN [schemas |-> SchemaRows(cat.schemata),
        tables |-> TableRows(tabs),
        columns |-> [i \in 1..Len(cols) |->
                       ColumnRow(cols[i].schema, cols[i].table, cols[i].name, cols[i].dtype,
                                 cols[i].comment)]]

NoLists == [schemas |-> <<>>, tables |-> <<>>, columns |-> <<>>]

HarvestUrls == {"duckdb:///data.db", " postgres://u@h/db", "postgresql://u@redshift/db"}

\* where the first part of harvest_metadata can raise
StartFailures == {"OSError: mkdir", "ImportError: duckdb-engine", "ArgumentError: create_engine"}

\* where the enumeration can raise
CollectFailures ==
    {"OperationalError: connect", "RuntimeError: Failed to list schemas",
     "RuntimeError: Failed to list tables", "RuntimeError: Failed to get columns"}

HarvestInit ==
    /\ files = [k \in KindSet |-> Absent]
    /\ hpc = "idle"
    /\ hurl = ""
    /\ hlists = NoLists
    /\ hk = 1
    /\ herr = ""
    /\ hnum = 0
    /\ stamp = [k \in KindSet |-> 0]
    /\ before = [k \in KindSet |-> Absent]

\* harvest_metadata(connection_string, conn_name), up to create_engine
HarvestCall ==
    /\ hpc \in {"idle", "done", "failed"}
    /\ hnum < MaxHarvests
    /\ hnum' = hnum + 1
    /\ before' = files
    /\ hlists' = NoLists
    /\ hk' = 1
    /\ \E connection_string \in HarvestUrls, fail \in StartFailures \cup {""} :
          LET url == normalize_connection_string(connection_string)
          IN /\ fail = "ImportError: duckdb-engine" => is_duckdb_url(url)
             /\ hurl' = url
             /\ herr' = fail
             /\ hpc' = IF fail = "" THEN "engine" ELSE "failed"
    /\ UNCHANGED <<files, stamp>>

\* the enumeration: _harvest_metadata_duckdb's queries or the Inspector loops
HarvestCollect ==
    /\ hpc = "engine"
    /\ \E cat \in Catalogs, fail \in CollectFailures \cup {""} :
          /\ is_duckdb_url(hurl) => fail \in {"", "OperationalError: connect"}
          /\ herr' = fail
          /\ IF fail = ""
             THEN /\ hlists' = IF is_duckdb_url(hurl) THEN DuckdbLists(cat) ELSE ReflectedLists(cat)
                  /\ hpc' = "write"
             ELSE /\ hlists' = NoLists
                  /\ hpc' = "failed"
    /\ UNCHANGED <<files, hurl, hk, hnum, stamp, before>>

\* the write loop: open(path, "w") truncates the file, or raises
HarvestOpen ==
    /\ hpc = "write"
    /\ \/ /\ files' = [files EXCEPT ![Kinds[hk]] = BadJson]
          /\ stamp' = [stamp EXCEPT ![Kinds[hk]] = 0]
          /\ hpc' = "dump"
          /\ UNCHANGED herr
       \/ /\ herr' = "OSError: open"
          /\ hpc' = "failed"
          /\ UNCHANGED <<files, stamp>>
    /\ UNCHANGED <<hurl, hlists, hk, hnum, before>>

\* the write loop: json.dump writes the list, or raises part way
HarvestDump ==
    /\ hpc = "dump"
    /\ \/ /\ files' = [files EXCEPT ![Kinds[hk]] = JsonFile(JList(hlists[Kinds[hk]]))]
          /\ stamp' = [stamp EXCEPT ![Kinds[hk]] = hnum]
          /\ hk' = IF hk < Len(Kinds) THEN hk + 1 ELSE hk
          /\ hpc' = IF hk < Len(Kinds) THEN "write" ELSE "done"
          /\ UNCHANGED herr
       \/ /\ herr' = "OSError: write"
          /\ hpc' = "failed"
          /\ UNCHANGED <<files, stamp, hk>>
    /\ UNCHANGED <<hurl, hlists, hnum, before>>

(***************************************************************************)
(* Concurrent harvests and a concurrent context build (app.py, the harvest *)
(* button and the chat turn of different sessions; metadata_utils.py)      *)
(*                                                                         *)
(* Every session runs main in its own thread, and the files of a           *)
(* connection name are shared by all of them.  Two sessions harvest the    *)
(* same connection name while a third builds the context.  A step is one   *)
(* system call on a file: open(path, "w") truncates it, and the write of   *)
(* json.dump puts the text at offset 0 of whatever the file then holds.    *)
(***************************************************************************)
Sessions == {1, 2}

\* the three files after a write loop that ran to its end on its own
Written(lists) == [k \in KindSet |-> JsonFile(JList(lists[k]))]

\* harvest_metadata: the strategy is chosen by the url
Collected(url, cat) == IF is_duckdb_url(url) THEN DuckdbLists(cat) ELSE ReflectedLists(cat)

\* the sum of a sequence of numbers
RECURSIVE Sum(_)
Sum(ns) == IF Len(ns) = 0 THEN 0 ELSE ns[1] + Sum(Tail(ns))

\* len(json.dumps(value)) of a cell: a string without escapes, or null
CellLen(value) == IF value.isNone THEN 4 ELSE Len(value.s) + 2

\* json.dump(data, f, indent=2): the length of one record of the list,
\* from its two spaces and brace to its closing brace
RecordLen(row) ==
    3 + 1
    + Sum([i \in 1..Len(row.keys) |-> 4 + (Len(row.keys[i]) + 2) + 2 + CellLen(row.vals[i])])
    + 2 * (Len(row.keys) - 1)
    + 1 + 3

\* json.dump(data, f, indent=2): the length of the text of the list
DumpLen(rows) ==
    IF Len(rows) = 0 THEN 2
    ELSE 2 + Sum([i \in 1..Len(rows) |-> RecordLen(rows[i])]) + 2 * (Len(rows) - 1) + 2

\* the number of bytes a file holds
FileLen(file) == IF file.st = "json" /\ file.v.jt = "list" THEN DumpLen(file.v.rows) ELSE 0

\* The file after rows are written at offset 0: the text of the list when it
\* covers what the file held, else that text followed by the tail of the
\* longer text, which is not JSON.
Overwrite(file, rows) == IF DumpLen(rows) >= FileLen(file) THEN JsonFile(JList(rows)) ELSE BadJson

RaceInit ==
    /\ rurl \in {normalize_connection_string(c) : c \in HarvestUrls}
    /\ rpc = [h \in Sessions |-> "idle"]
    /\ rk = [h \in Sessions |-> 1]
    /\ rlists = [h \in Sessions |-> NoLists]
    /\ files \in {[k \in KindSet |-> Absent], Written(Collected(rurl, CatalogA))}
    /\ rbase = files
    /\ cpc = "arg"
    /\ ci = 1
    /\ parts = <<>>
    /\ ctx = NoCall

\* a session: harvest_metadata(url, active_conn), up to create_engine
RaceCall(h) ==
    /\ rpc[h] = "idle"
    /\ \E fail \in StartFailures \cup {""} :
          /\ fail = "ImportError: duckdb-engine" => is_duckdb_url(rurl)
          /\ rpc' = [rpc EXCEPT ![h] = IF fail = "" THEN "engine" ELSE "failed"]
    /\ UNCHANGED <<files, rurl, rk, rlists, rbase>>

\* a session: the enumeration
RaceCollect(h) ==
    /\ rpc[h] = "engine"
    /\ \E cat \in Catalogs, fail \in CollectFailures \cup {""} :
          /\ is_duckdb_url(rurl) => fail \in {"", "OperationalError: connect"}
          /\ IF fail = ""
             THEN /\ rlists' = [rlists EXCEPT ![h] = Collected(rurl, cat)]
                  /\ rpc' = [rpc EXCEPT ![h] = "write"]
             ELSE /\ rpc' = [rpc EXCEPT ![h] = "failed"]
                  /\ UNCHANGED rlists
    /\ UNCHANGED <<files, rurl, rk, rbase>>

\* a session, the write loop: open(path, "w") truncates the file, or raises
RaceOpen(h) ==
    /\ rpc[h] = "write"
    /\ \/ /\ files' = [files EXCEPT ![Kinds[rk[h]]] = BadJson]
          /\ rpc' = [rpc EXCEPT ![h] = "dump"]
       \/ /\ rpc' = [rpc EXCEPT ![h] = "failed"]
          /\ UNCHANGED files
    /\ UNCHANGED <<rurl, rk, rlists, rbase>>

\* a session, the write loop: json.dump and the close of the file, or an
\* exception
RaceDump(h) ==
    /\ rpc[h] = "dump"
    /\ \/ /\ files' = [files EXCEPT ![Kinds[rk[h]]] = Overwrite(@, rlists[h][Kinds[rk[h]]])]
          /\ rk' = [rk EXCEPT ![h] = IF @ < Len(Kinds) THEN @ + 1 ELSE @]
          /\ rpc' = [rpc EXCEPT ![h] = IF rk[h] < Len(Kinds) THEN "write" ELSE "done"]
       \/ /\ rpc' = [rpc EXCEPT ![h] = "failed"]
          /\ UNCHANGED <<files, rk>>
    /\ UNCHANGED <<rurl, rlists, rbase>>

(***************************************************************************)
(* Query executor (app.py) and validate_connection (metadata_utils.py)     *)
(*                                                                         *)
(* The environment of a call: whether the duckdb_engine package can be     *)
(* imported, the step of the try block that raises ("" when none does),    *)
(* whether the exception is an SQLAlchemyError, its str(), and the rows    *)
(* the database answers.                                                   *)
(***************************************************************************)
NoTable == [isNone |-> TRUE, columns |-> <<>>, rows |-> <<>>]
Table(columns, rows) == [isNone |-> FALSE, columns |-> columns, rows |-> rows]

ResultSets == {Table(<<"?column?">>, <<<<"1">>>>), Table(<<"id", "name">>, <<>>)}

TrySteps == {"create_engine", "connect", "execute", "fetchall", "DataFrame"}

Env(driver, fail, sqla, msg, table) ==
    [driver |-> driver, fail |-> fail, sqla |-> sqla, msg |-> msg, table |-> table]

Envs ==
    {Env(d, "", FALSE, "", t) : d \in BOOLEAN, t \in ResultSets}
    \cup {Env(d, f, q, m, NoTable) :
            d \in BOOLEAN, f \in TrySteps, q \in BOOLEAN, m \in {"", "(OperationalError) timeout"}}

\* sqlalchemy.engine.make_url accepts the string
ParsableUrl(url) == Contains(url, "://") /\ ~StartsWith(url, "://")

\* what can happen for this url and this call
EnvFits(env, url, steps) ==
    /\ env.fail \in steps \cup {""}
    /\ ~ParsableUrl(url) => env.fail = "create_engine"

CallNone == [status |-> "none", exc |-> "", df |-> NoTable, err |-> None, ok |-> FALSE, msg |-> ""]

ExecReturn(df, err) ==
    [status |-> "returned", exc |-> "", df |-> df, err |-> err, ok |-> FALSE, msg |-> ""]
ValidateReturn(ok, msg) ==
    [status |-> "returned", exc |-> "", df |-> NoTable, err |-> None, ok |-> ok, msg |-> msg]
CallRaise(exc) ==
    [status |-> "raised", exc |-> exc, df |-> NoTable, err |-> None, ok |-> FALSE, msg |-> ""]

\* _ensure_duckdb_dialect(): TRUE when it raises ImportError
_ensure_duckdb_dialect(env) == ~env.driver

\* app.py _execute_sql(connection_string, sql)
_execute_sql(connection_string, sql, env) ==
    LET url == normalize_connection_string(connection_string)
    IN IF is_duckdb_url(url) /\ _ensure_duckdb_dialect(env) THEN CallRaise("ImportError")
       ELSE IF env.fail = "" THEN ExecReturn(env.table, None)
       ELSE IF env.sqla THEN ExecReturn(NoTable, Some(env.msg))
       ELSE ExecReturn(NoTable, Some(env.msg))

\* metadata_utils.py validate_connection(connection_string)
validate_connection(connection_string, env) ==
    LET url == normalize_connection_string(connection_string)
    IN IF is_duckdb_url(url) /\ _ensure_duckdb_dialect(env) THEN CallRaise("ImportError")
       ELSE IF env.fail = "" THEN ValidateReturn(TRUE, "Connection successful.")
       ELSE IF env.sqla THEN ValidateReturn(FALSE, env.msg)
       ELSE ValidateReturn(FALSE, env.msg)

CallUrls ==
    {"duckdb:///data.db", " DuckDB:///:memory:", "postgres://u@h/db", "postgresql://u:bad@h/db",
     "postgresql+psycopg2://u@nohost/db", "mysql://h/db", "not a url", ""}

Statements == {"SELECT 1", "SELEC 1", "DROP TABLE t"}

BoundaryInit ==
    /\ bop \in {"execute", "validate"}
    /\ burl \in CallUrls
    /\ bsql \in IF bop = "execute" THEN Statements ELSE {""}
    /\ benv = Env(TRUE, "", FALSE, "", NoTable)
    /\ bres = CallNone
    /\ bpc = "arg"

ExecuteSql ==
    /\ bpc = "arg"
    /\ bop = "execute"
    /\ \E env \in Envs :
          /\ EnvFits(env, normalize_connection_string(burl), TrySteps)
          /\ benv' = env
          /\ bres' = _execute_sql(burl, bsql, env)
    /\ bpc' = "done"
    /\ UNCHANGED <<bop, burl, bsql>>

ValidateConnection ==
    /\ bpc = "arg"
    /\ bop = "validate"
    /\ \E env \in Envs :
          /\ EnvFits(env, normalize_connection_string(burl), {"create_engine", "connect", "execute"})
          /\ benv' = env
          /\ bres' = validate_connection(burl, env)
    /\ bpc' = "done"
    /\ UNCHANGED <<bop, burl, bsql>>

(***************************************************************************)
(* The chat turn (app.py main, llm_utils.py text_to_sql)                   *)
(***************************************************************************)
\* Python truth value of an Optional[str]
Truthy(opt) == ~opt.isNone /\ Len(opt.s) > 0

\* llm_utils.py get_litellm_model_id(provider, model)
get_litellm_model_id(provider, model) ==
    LET pr == Lower(Strip(provider))
        m == Strip(model)
    IN IF Len(m) = 0 THEN ""
       ELSE IF pr \in {"openai", "anthropic", "groq"} THEN pr \o "/" \o m
       ELSE IF pr = "gemini" THEN (IF ~StartsWith(m, "gemini/") THEN "gemini/" \o m ELSE m)
       ELSE m

\* metadata_utils.py load_metadata_context(conn_name), the whole call
RECURSIVE LoadFrom(_, _, _)
LoadFrom(fs, i, acc) ==
    IF i > Len(Kinds)
    THEN Returned(IF Len(acc) > 0 THEN Join(acc, "\n") ELSE NO_METADATA)
    ELSE LET r == KindParts(fs[Kinds[i]], Label(Kinds[i]))
         IN IF r.exc # "" THEN Raised(r.exc) ELSE LoadFrom(fs, i + 1, acc \o r.add)

load_metadata_context(fs) == LoadFrom(fs, 1, <<>>)

NO_MODEL == "No model selected."
NO_METADATA_ERROR ==
    "No database metadata available. Harvest metadata for the active connection first."

\* a faulty guard: only an empty context is refused, the sentinel is passed
\* on to the model
TextToSqlGuardEmptyOnly(metadata_context, model_id) ==
    IF Len(model_id) = 0 THEN Some(NO_MODEL)
    ELSE IF Len(metadata_context) = 0 THEN Some(NO_METADATA_ERROR)
    ELSE None

\* text_to_sql: the two guards before the model is called; None when both pass
TextToSqlGuard(metadata_context, model_id) ==
    IF Len(model_id) = 0 THEN Some(NO_MODEL)
    ELSE IF Len(metadata_context) = 0 \/ Strip(metadata_context) = NO_METADATA
         THEN Some(NO_METADATA_ERROR)
    ELSE None

Llm(sql, err) == [sql |-> sql, err |-> err]

Report(kind, text) == [kind |-> kind, text |-> text]

Snapshot(n) == [k \in KindSet |-> JsonFile(JList([i \in 1..n |-> Row(k, i)]))]

TurnSnapshots ==
    {[k \in KindSet |-> Absent],
     Snapshot(1),
     [Snapshot(1) EXCEPT !["tables"] = NotUtf8],
     [k \in KindSet |-> JsonFile(JList(<<>>))]}

TurnInputs ==
    [active_conn : {"", "mydb"},
     provider : {"openai", "gemini"},
     model_name : {"", "gpt-4o", " "},
     conn_url : {"", "duckdb:///data.db", "postgres://u@h/db"}]

\* what litellm.completion does: a response content, or an exception
ModelOutcomes ==
    {[raises |-> FALSE, text |-> c] :
        c \in {"", "^^^sql\nSELECT 1\n^^^", "SELECT 1", "I cannot answer.", "^^^ ^^^"}}
    \cup {[raises |-> TRUE, text |-> m] : m \in {"", "RateLimitError: quota"}}

TurnInit ==
    /\ files \in TurnSnapshots
    /\ tin \in TurnInputs
    /\ tpc = "input"
    /\ tctx = NoCall
    /\ tcontent = ""
    /\ tllm = Llm(None, None)
    /\ texec = CallNone
    /\ tenv = Env(TRUE, "", FALSE, "", NoTable)
    /\ tlog = <<>>
    /\ treports = <<>>

\* main: the prompt arrives; the three st.stop() checks before any step
TurnInput ==
    /\ tpc = "input"
    /\ IF Len(tin.active_conn) = 0
       THEN /\ treports' = Append(treports, Report("error", "Select an active connection in the sidebar."))
            /\ tpc' = "end"
       ELSE IF Len(tin.model_name) = 0
       THEN /\ treports' = Append(treports, Report("error", "Select an LLM model in the sidebar."))
            /\ tpc' = "end"
       ELSE IF Len(tin.conn_url) = 0
       THEN /\ treports' = Append(treports, Report("error", "Active connection URL not found."))
            /\ tpc' = "end"
       ELSE /\ tpc' = "context"
            /\ UNCHANGED treports
    /\ UNCHANGED <<files, tin, tctx, tcontent, tllm, texec, tenv, tlog>>

\* main: metadata_context = load_metadata_context(active_conn); an exception
\* leaves main and is shown by the framework
TurnContext ==
    /\ tpc = "context"
    /\ tlog' = Append(tlog, "context")
    /\ tctx' = load_metadata_context(files)
    /\ IF tctx'.status = "raised"
       THEN /\ treports' = Append(treports, Report("exception", tctx'.exc))
            /\ tpc' = "end"
       ELSE /\ tpc' = "generate"
            /\ UNCHANGED treports
    /\ UNCHANGED <<files, tin, tcontent, tllm, texec, tenv>>

\* text_to_sql: entry, the guards on model_id and metadata_context
TurnGenerate ==
    /\ tpc = "generate"
    /\ LET guard == TextToSqlGuard(tctx.text, get_litellm_model_id(tin.provider, tin.model_name))
       IN IF ~guard.isNone
          THEN /\ tllm' = Llm(None, guard)
               /\ tpc' = "branch"
          ELSE /\ tpc' = "model"
               /\ UNCHANGED tllm
    /\ UNCHANGED <<files, tin, tctx, tcontent, texec, tenv, tlog, treports>>

\* text_to_sql: litellm.completion(...) and the read of the response content
TurnModel ==
    /\ tpc = "model"
    /\ tlog' = Append(tlog, "model")
    /\ \E out \in ModelOutcomes :
          IF out.raises
          THEN /\ tllm' = Llm(None, Some(out.text))
               /\ tpc' = "branch"
               /\ UNCHANGED tcontent
          ELSE /\ tcontent' = out.text
               /\ tpc' = "extract"
               /\ UNCHANGED tllm
    /\ UNCHANGED <<files, tin, tctx, texec, tenv, treports>>

\* text_to_sql: sql = extract_sql_from_response(content); return sql, None
TurnExtract ==
    /\ tpc = "extract"
    /\ tlog' = Append(tlog, "extract")
    /\ tllm' = Llm(extract_sql_from_response(tcontent), None)
    /\ tpc' = "branch"
    /\ UNCHANGED <<files, tin, tctx, tcontent, texec, tenv, treports>>

\* main: if llm_error ... st.stop(); if not sql ... st.stop()
TurnBranch ==
    /\ tpc = "branch"
    /\ IF Truthy(tllm.err)
       THEN /\ treports' = Append(treports, Report("error", tllm.err.s))
            /\ tpc' = "end"
       ELSE IF ~Truthy(tllm.sql)
       THEN /\ treports' = Append(treports,
                               Report("warning", "No SQL could be extracted from the model response."))
            /\ tpc' = "end"
       ELSE /\ tpc' = "execute"
            /\ UNCHANGED treports
    /\ UNCHANGED <<files, tin, tctx, tcontent, tllm, texec, tenv, tlog>>

\* main: df, exec_error = _execute_sql(conn_url, sql) and what is shown
TurnExecute ==
    /\ tpc = "execute"
    /\ tlog' = Append(tlog, "execute")
    /\ \E env \in Envs :
          /\ EnvFits(env, normalize_connection_string(tin.conn_url), TrySteps)
          /\ tenv' = env
          /\ texec' = _execute_sql(tin.conn_url, tllm.sql.s, env)
    /\ treports' = Append(treports,
                      IF texec'.status = "raised" THEN Report("exception", texec'.exc)
                      ELSE IF Truthy(texec'.err)
                      THEN Report("error", "Execution error: " \o texec'.err.s)
                      ELSE Report("results", "Here are the results."))
    /\ tpc' = "end"
    /\ UNCHANGED <<files, tin, tctx, tcontent, tllm>>

(***************************************************************************)
(* Specifications                                                          *)
(***************************************************************************)
ResolverIdle == raw_conn = "" /\ norm1 = None /\ norm2 = None /\ npc = "off"
ExtractorIdle == content = "" /\ extracted = None /\ xpc = "off"
ContextIdle == cpc = "off" /\ ci = 1 /\ parts = <<>> /\ ctx = NoCall
FilesIdle == files = [k \in KindSet |-> Absent]
HarvestIdle ==
    /\ hpc = "off" /\ hurl = "" /\ hlists = NoLists /\ hk = 1 /\ herr = "" /\ hnum = 0
    /\ stamp = [k \in KindSet |-> 0] /\ before = [k \in KindSet |-> Absent]
BoundaryIdle ==
    /\ bop = "off" /\ burl = "" /\ bsql = "" /\ benv = Env(TRUE, "", FALSE, "", NoTable)
    /\ bres = CallNone /\ bpc = "off"
TurnIdle ==
    /\ tpc = "off" /\ tin = [active_conn |-> "", provider |-> "", model_name |-> "", conn_url |-> ""]
    /\ tctx = NoCall /\ tcontent = "" /\ tllm = Llm(None, None) /\ texec = CallNone
    /\ tenv = Env(TRUE, "", FALSE, "", NoTable) /\ tlog = <<>> /\ treports = <<>>

RaceIdle ==
    /\ rurl = "" /\ rpc = [h \in Sessions |-> "off"] /\ rk = [h \in Sessions |-> 1]
    /\ rlists = [h \in Sessions |-> NoLists] /\ rbase = [k \in KindSet |-> Absent]

ResolverRest == <<extractorVars, contextVars, files, harvestVars, boundaryVars, turnVars, raceVars>>
ExtractorRest == <<resolverVars, contextVars, files, harvestVars, boundaryVars, turnVars, raceVars>>
ContextRest == <<resolverVars, extractorVars, harvestVars, boundaryVars, turnVars, raceVars>>
HarvestRest == <<resolverVars, extractorVars, contextVars, boundaryVars, turnVars, raceVars>>
BoundaryRest == <<resolverVars, extractorVars, contextVars, files, harvestVars, turnVars, raceVars>>
TurnRest == <<resolverVars, extractorVars, contextVars, harvestVars, boundaryVars, raceVars>>

InitResolver ==
    /\ ResolverInit /\ ExtractorIdle /\ ContextIdle /\ FilesIdle
    /\ HarvestIdle /\ BoundaryIdle /\ TurnIdle /\ RaceIdle
NextResolver ==
    \/ Normalize /\ UNCHANGED ResolverRest
    \/ NormalizeAgain /\ UNCHANGED ResolverRest
SpecResolver == InitResolver /\ [][NextResolver]_vars

InitExtractor ==
    /\ ExtractorInit /\ ResolverIdle /\ ContextIdle /\ FilesIdle
    /\ HarvestIdle /\ BoundaryIdle /\ TurnIdle /\ RaceIdle
NextExtractor == Extract /\ UNCHANGED ExtractorRest
SpecExtractor == InitExtractor /\ [][NextExtractor]_vars

InitContext ==
    /\ ContextInit /\ ResolverIdle /\ ExtractorIdle /\ HarvestIdle /\ BoundaryIdle /\ TurnIdle
    /\ RaceIdle
NextContext ==
    \/ ContextCall /\ UNCHANGED ContextRest
    \/ ContextKind /\ UNCHANGED ContextRest
    \/ ContextReturn /\ UNCHANGED ContextRest
SpecContext == InitContext /\ [][NextContext]_vars

InitHarvest ==
    /\ HarvestInit /\ ResolverIdle /\ ExtractorIdle /\ ContextIdle /\ BoundaryIdle /\ TurnIdle
    /\ RaceIdle
NextHarvest ==
    \/ HarvestCall /\ UNCHANGED HarvestRest
    \/ HarvestCollect /\ UNCHANGED HarvestRest
    \/ HarvestOpen /\ UNCHANGED HarvestRest
    \/ HarvestDump /\ UNCHANGED HarvestRest
SpecHarvest == InitHarvest /\ [][NextHarvest]_vars

InitBoundary ==
    /\ BoundaryInit /\ ResolverIdle /\ ExtractorIdle /\ ContextIdle /\ FilesIdle
    /\ HarvestIdle /\ TurnIdle /\ RaceIdle
NextBoundary ==
    \/ ExecuteSql /\ UNCHANGED BoundaryRest
    \/ ValidateConnection /\ UNCHANGED BoundaryRest
SpecBoundary == InitBoundary /\ [][NextBoundary]_vars

InitTurn ==
    /\ TurnInit /\ ResolverIdle /\ ExtractorIdle /\ ContextIdle /\ HarvestIdle /\ BoundaryIdle
    /\ RaceIdle
NextTurn ==
    \/ TurnInput /\ UNCHANGED TurnRest
    \/ TurnContext /\ UNCHANGED TurnRest
    \/ TurnGenerate /\ UNCHANGED TurnRest
    \/ TurnModel /\ UNCHANGED TurnRest
    \/ TurnExtract /\ UNCHANGED TurnRest
    \/ TurnBranch /\ UNCHANGED TurnRest
    \/ TurnExecute /\ UNCHANGED TurnRest
SpecTurn == InitTurn /\ [][NextTurn]_vars

RaceRest == <<resolverVars, extractorVars, contextVars, harvestVars, boundaryVars, turnVars>>

InitRace ==
    RaceInit /\ ResolverIdle /\ ExtractorIdle /\ HarvestIdle /\ BoundaryIdle /\ TurnIdle
NextRace ==
    \/ (\E h \in Sessions : RaceCall(h)) /\ UNCHANGED RaceRest
    \/ (\E h \in Sessions : RaceCollect(h)) /\ UNCHANGED RaceRest
    \/ (\E h \in Sessions : RaceOpen(h)) /\ UNCHANGED RaceRest
    \/ (\E h \in Sessions : RaceDump(h)) /\ UNCHANGED RaceRest
    \/ ContextCall /\ UNCHANGED ContextRest
    \/ ContextKind /\ UNCHANGED ContextRest
    \/ ContextReturn /\ UNCHANGED ContextRest
SpecRace == InitRace /\ [][NextRace]_vars

\* the whole program: any one component at work
Init ==
    \/ InitResolver \/ InitExtractor \/ InitContext \/ InitHarvest \/ InitBoundary \/ InitTurn
    \/ InitRace
Next ==
    \/ NextResolver \/ NextExtractor \/ NextContext \/ NextHarvest \/ NextBoundary \/ NextTurn
    \/ NextRace
Spec == Init /\ [][Next]_vars

(***************************************************************************)
(* C9: normalize is idempotent: for every connection string,               *)
(* normalize(normalize(s)) equals normalize(s).                            *)
(***************************************************************************)
NormalizeIdempotent == npc = "twice" => norm2 = norm1

\* a postgres:// string with surrounding white space was rewritten and
\* normalized a second time
NormalizeIdempotentWitness ==
    /\ npc = "twice"
    /\ StartsWith(Strip(raw_conn), "postgres://")
    /\ raw_conn # Strip(raw_conn)
    /\ StartsWith(norm1.s, PG_DRIVER_PREFIX)
    /\ norm1.s # raw_conn

(***************************************************************************)
(* The fenced block of a text, stated on positions: the opening fence is   *)
(* the first fence of the text, an sql tag (any case) directly after it    *)
(* belongs to the fence, and the block is closed by the next fence after   *)
(* that.                                                                   *)
(***************************************************************************)
OpenFence(text) == FindFrom(text, FENCE, 1)

InteriorStart(text) ==
    LET o == OpenFence(text)
    IN IF o + 5 <= Len(text) /\ Lower(SubSeq(text, o + 3, o + 5)) = "sql" THEN o + 6 ELSE o + 3

CloseFence(text) == FindFrom(text, FENCE, InteriorStart(text))

HasBlock(text) == OpenFence(text) # 0 /\ CloseFence(text) # 0

Interior(text) == SubSeq(text, InteriorStart(text), CloseFence(text) - 1)

(***************************************************************************)
(* C4: extract returns nothing for an empty or all-white-space response;   *)
(* otherwise, when the text contains a fenced block, it returns the        *)
(* trimmed interior of the first block, or nothing when that interior is   *)
(* empty after trimming, whatever surrounds the block.                     *)
(***************************************************************************)
ExtractFirstBlock ==
    xpc = "done" =>
        /\ Strip(content) = "" => extracted = None
        /\ (Strip(content) # "" /\ HasBlock(content)) =>
              extracted = (IF Strip(Interior(content)) = "" THEN None
                           ELSE Some(Strip(Interior(content))))

\* a response with text before a block and another fence after it, for
\* which the interior of the first block was returned
ExtractFirstBlockWitness ==
    /\ xpc = "done"
    /\ OpenFence(Strip(content)) > 1
    /\ HasBlock(content)
    /\ FindFrom(content, FENCE, CloseFence(content) + 3) # 0
    /\ ~extracted.isNone
    /\ extracted.s = Strip(Interior(content))

(***************************************************************************)
(* C5: for a non-blank response without a fenced block, extract returns    *)
(* the whole trimmed text, whether or not a non-comment line begins with   *)
(* a statement keyword; never only the matching line and never nothing.    *)
(***************************************************************************)
ExtractVerbatim ==
    (xpc = "done" /\ Strip(content) # "" /\ ~HasBlock(content)) =>
        extracted = Some(Strip(content))

\* a response of several lines, one of them a keyword line, returned whole
ExtractVerbatimWitness ==
    /\ xpc = "done"
    /\ ~HasBlock(content)
    /\ \E i \in 1..Len(Split(Strip(content), "\n")) :
          /\ KeywordLine(Strip(Split(Strip(content), "\n")[i]))
          /\ Strip(Split(Strip(content), "\n")[i]) # Strip(content)
    /\ extracted = Some(Strip(content))

(***************************************************************************)
(* Context builder: what the claims call a skipped kind, a damaged file    *)
(* and a labeled section.                                                  *)
(***************************************************************************)
\* absent, unreadable or corrupt, or empty
ClaimSkipped(file) ==
    \/ file.st \in {"absent", "oserror", "notutf8", "badjson"}
    \/ file.st = "json" /\ ~file.v.truthy

\* not valid JSON, not UTF-8, not an array of flat records, or an array
\* with a later element that is not a record
Damaged(file) ==
    \/ file.st \in {"notutf8", "badjson"}
    \/ file.st = "json" /\ file.v.truthy /\ file.v.jt # "list"
    \/ file.st = "json" /\ file.v.jt = "list" /\ \E i \in 1..Len(file.v.rows) : ~file.v.rows[i].isdict

HasSection(text, kind) == Contains(text, "## " \o Label(kind) \o "\n")

(***************************************************************************)
(* C6: build_context returns exactly the sentinel if and only if all three *)
(* kinds are skipped (file absent, unreadable/corrupt, or empty); when a   *)
(* kind is not skipped the returned text contains its labeled section and  *)
(* differs from the sentinel.                                              *)
(***************************************************************************)
ContextSentinelIff ==
    cpc = "done" =>
        /\ ctx.status = "returned"
        /\ ctx.text = NO_METADATA <=> \A k \in KindSet : ClaimSkipped(files[k])
        /\ \A k \in KindSet :
              ~ClaimSkipped(files[k]) => HasSection(ctx.text, k) /\ ctx.text # NO_METADATA

(***************************************************************************)
(* C7: build_context emits at most 500 data rows per kind, and the rows    *)
(* emitted for a kind are exactly the first min(500, n) persisted rows in  *)
(* their persisted order.  Stated on the loop iteration of a kind: the     *)
(* data rows are the lines it appends after the label, the header and the  *)
(* rule, and before the closing empty line.                                *)
(***************************************************************************)
ContextRowCap ==
    [][(cpc = "loop" /\ ci' = ci + 1) =>
         LET file == files[Kinds[ci]]
             rows == file.v.rows
             emitted == SubSeq(parts', Len(parts) + 4, Len(parts') - 1)
         IN /\ Len(emitted) <= 500
            /\ (file.st = "json" /\ Len(rows) > 0 /\ rows[1].isdict) =>
                  /\ Len(parts') = Len(parts) + 4 + Len(emitted)
                  /\ Len(emitted) = (IF Len(rows) < 500 THEN Len(rows) ELSE 500)
                  /\ \A i \in 1..Len(emitted) : emitted[i] = RowLine(rows[i], rows[1].keys)]_vars

\* a kind with more than 500 persisted rows was rendered and the call returned
ContextRowCapWitness ==
    /\ cpc = "done"
    /\ ctx.status = "returned"
    /\ Len(files["schemas"].v.rows) > 500
    /\ \A i \in 1..Len(files["schemas"].v.rows) : files["schemas"].v.rows[i].isdict
    /\ HasSection(ctx.text, "schemas")
    /\ Len(parts) >= 504

(***************************************************************************)
(* C8: build_context never surfaces an error for a damaged file: whatever  *)
(* the three files hold, the call returns a string in which a damaged kind *)
(* is omitted and the other kinds are rendered.                            *)
(***************************************************************************)
ContextNeverRaises ==
    cpc = "done" =>
        /\ ctx.status = "returned"
        /\ \A k \in KindSet : Damaged(files[k]) => ~HasSection(ctx.text, k)
        /\ \A k \in KindSet :
              (~Damaged(files[k]) /\ ~ClaimSkipped(files[k])) => HasSection(ctx.text, k)

(***************************************************************************)
(* C1: harvest is all-or-nothing on the three files: after a harvest that  *)
(* failed at any point, either all three files were written by this        *)
(* harvest or none was changed.                                            *)
(***************************************************************************)
HarvestAllOrNothing ==
    hpc = "failed" =>
        \/ \A k \in KindSet : stamp[k] = hnum
        \/ files = before

(***************************************************************************)
(* C2: execute never raises to its caller and always returns exactly one   *)
(* of a table or an error string, for every url and sql and every failure  *)
(* mode, a duckdb url whose driver package cannot be loaded and a failure  *)
(* with an empty message included.                                         *)
(***************************************************************************)
ExecuteNeverRaises ==
    (bop = "execute" /\ bpc = "done") =>
        /\ bres.status = "returned"
        /\ bres.df.isNone # bres.err.isNone

(***************************************************************************)
(* C3: validate never raises to its caller: any failure to connect or to   *)
(* probe is returned as (failure, message), and (success, message) is      *)
(* returned only when a connection was opened and SELECT 1 executed.       *)
(***************************************************************************)
ValidateNeverRaises ==
    (bop = "validate" /\ bpc = "done") =>
        /\ bres.status = "returned"
        /\ bres.ok <=> benv.fail = ""

(***************************************************************************)
(* The steps of a turn, as the claims name them.                           *)
(***************************************************************************)
StepOrder == <<"context", "model", "extract", "execute">>

IsPrefix(a, b) == Len(a) <= Len(b) /\ a = SubSeq(b, 1, Len(a))

Ran(step) == \E i \in 1..Len(tlog) : tlog[i] = step

\* a step of the turn ran and failed
StepFailed ==
    \/ Ran("context") /\ tctx.status = "raised"
    \/ Ran("model") /\ ~tllm.err.isNone
    \/ Ran("extract") /\ ~Truthy(tllm.sql)
    \/ Ran("execute") /\ (texec.status = "raised" \/ tenv.fail # "")

(***************************************************************************)
(* C10: within one turn the steps run strictly in the order context build, *)
(* model call, extraction, query execution, each at most once; a step runs *)
(* only if every earlier step succeeded; after any step fails the turn     *)
(* ends with that failure reported once, and no step is retried.           *)
(***************************************************************************)
TurnSequential ==
    /\ IsPrefix(tlog, StepOrder)
    /\ Ran("model") => tctx.status = "returned" /\ tctx.text # NO_METADATA
    /\ Ran("extract") => tllm.err.isNone
    /\ Ran("execute") => Truthy(tllm.sql) /\ tllm.err.isNone
    /\ Len(treports) = (IF tpc = "end" THEN 1 ELSE 0)
    /\ (tpc = "end" /\ StepFailed) => treports[1].kind # "results"
    /\ (tpc # "end" /\ StepFailed) => tpc = "branch"

(***************************************************************************)
(* The persisted snapshot, as the claims read it: the records of a kind    *)
(* and a field of a record.                                                *)
(***************************************************************************)
Persisted(kind) == files[kind].v.rows

Cell(row, field) == DictGet(row, field, None)

\* the harvest call that just returned used _harvest_metadata_duckdb
DuckdbHarvestDone == hpc = "done" /\ is_duckdb_url(hurl)

(***************************************************************************)
(* C11: after every successful harvest, under either collection strategy,  *)
(* the persisted snapshot is referentially closed: the schema_name of      *)
(* every table record appears in some schema record, and the (schema_name, *)
(* table_name) of every column record appears in some table record.        *)
(***************************************************************************)
HarvestClosed ==
    hpc = "done" =>
        /\ \A i \in 1..Len(Persisted("tables")) :
              \E j \in 1..Len(Persisted("schemas")) :
                 Cell(Persisted("schemas")[j], "schema_name")
                    = Cell(Persisted("tables")[i], "schema_name")
        /\ \A i \in 1..Len(Persisted("columns")) :
              \E j \in 1..Len(Persisted("tables")) :
                 /\ Cell(Persisted("tables")[j], "schema_name")
                       = Cell(Persisted("columns")[i], "schema_name")
                 /\ Cell(Persisted("tables")[j], "table_name")
                       = Cell(Persisted("columns")[i], "table_name")

(***************************************************************************)
(* C13: after a harvest with the information-schema strategy, no persisted *)
(* schema, table or column record has a schema_name that begins with       *)
(* "information_schema".                                                   *)
(***************************************************************************)
HarvestNoInformationSchema ==
    DuckdbHarvestDone =>
        \A k \in KindSet : \A i \in 1..Len(Persisted(k)) :
           ~StartsWith(Cell(Persisted(k)[i], "schema_name").s, "information_schema")

(***************************************************************************)
(* C12: a snapshot is replaced wholesale, last write wins: when two        *)
(* harvests of the same connection name run concurrently and both          *)
(* complete, the persisted triple is the complete triple produced by one   *)
(* of the two, never a mix of files from both; and the sections a context  *)
(* build renders while harvests run all come from the triple of one        *)
(* harvest: one of the two, or the one persisted before them.  Stated for  *)
(* harvests that do not fail.                                              *)
(***************************************************************************)
Rendered(triple) == load_metadata_context(triple).text

\* the triples of the harvests: the one persisted before the two began, and
\* the one each of the two has collected
Triples == {rbase} \cup {Written(rlists[h]) : h \in {g \in Sessions : rlists[g] # NoLists}}

\* a triple reduced to the kinds of S
Only(triple, S) == [k \in KindSet |-> IF k \in S THEN triple[k] ELSE Absent]

RaceWholesale ==
    (\A h \in Sessions : rpc[h] \notin {"off", "failed"}) =>
        /\ (\A h \in Sessions : rpc[h] = "done") =>
              \E h \in Sessions : files = Written(rlists[h])
        /\ (cpc = "done" /\ ctx.status = "returned") =>
              \E triple \in Triples, S \in SUBSET KindSet : ctx.text = Rendered(Only(triple, S))

(***************************************************************************)
(* The turns C14 is about.                                                 *)
(***************************************************************************)
\* the context build of the turn returned the sentinel
SentinelBuilt == Ran("context") /\ tctx.status = "returned" /\ tctx.text = NO_METADATA

\* no model is selected: the sidebar yields no model id
NoModelSelected == tpc # "off" /\ Len(get_litellm_model_id(tin.provider, tin.model_name)) = 0

(***************************************************************************)
(* C14: in any turn where the built metadata context is the sentinel or no *)
(* model is selected, the model is never called, no extraction is          *)
(* attempted and no query is executed; once the context is built, the turn *)
(* ends with one error message that asks for metadata or for a model, and  *)
(* that message is the generation error returned by text_to_sql: it is not *)
(* the "no SQL found" warning and not an execution failure.                *)
(***************************************************************************)
TurnGuarded ==
    (SentinelBuilt \/ NoModelSelected) =>
        /\ ~Ran("model") /\ ~Ran("extract") /\ ~Ran("execute")
        /\ texec = CallNone
        /\ (tpc = "end" /\ tctx.status = "returned") =>
              /\ Len(treports) = 1
              /\ treports[1].kind = "error"
              /\ treports[1].text \in {NO_MODEL, NO_METADATA_ERROR}
              /\ tllm = Llm(None, Some(treports[1].text))

\* a turn with a model selected and no snapshot on disk has ended with the
\* request to harvest metadata
TurnGuardedWitness ==
    /\ tpc = "end"
    /\ SentinelBuilt
    /\ ~NoModelSelected
    /\ \A k \in KindSet : files[k] = Absent
    /\ treports = <<Report("error", NO_METADATA_ERROR)>>
    /\ tlog = <<"context">>

====
